---- MODULE Spec2Model ----
(***************************************************************************)
(* Email Lead Monitor (src/index.js): the poll cycle monitorEmails, the    *)
(* per-message pipeline processEmail and the gateways they call.           *)
(*                                                                         *)
(* JavaScript runs one callback at a time and hands control over only at   *)
(* an await.  Every action below is the code that runs between two awaits  *)
(* of one monitorEmails invocation: it starts when a gateway call (or the  *)
(* pacing timer) returns and ends when the next call has been issued.      *)
(* pc[c] names the call invocation c is waiting for.                       *)
(*                                                                         *)
(* Confidence values are written in hundredths (0.6 is 60).                *)
(*                                                                         *)
(* The log ring is only ever appended to by the pipeline and read by       *)
(* GET /logs; no step of a cycle depends on it.  The cycle actions         *)
(* therefore leave logs alone, and LogSpec runs log() and GET /logs on     *)
(* their own.                                                              *)
(***************************************************************************)
EXTENDS Integers, Sequences, FiniteSets, TLC

VARIABLES
    processedEmails,  \* index.js:19  the Processing Ledger
    logs,             \* index.js:20  the log ring
    pc,               \* per invocation: the await it is suspended at
    newEmails,        \* monitorEmails: the filtered candidates (ids)
    idx,              \* monitorEmails: position of the for-of loop (1-based)
    results,          \* monitorEmails: results
    analysis,         \* processEmail: analysis
    isLead,           \* processEmail: isLead
    draftBody,        \* processEmail: draftBody
    email,            \* processEmail: subject, from, to, body
    report,           \* what monitorEmails returned
    drafts,           \* mailbox: number of drafts created, per message id
    labels,           \* mailbox: names of the labels that exist
    msgLabels,        \* mailbox: labels carried by each message
    lastLogs,         \* the response of the latest GET /logs
    handled,          \* per trigger: what the caller did with the outcome of
                      \* its latest invocation, once that has ended
    logged,           \* history: number of log() calls so far
    started,          \* history: number of cycles started so far
    overlapped,       \* history: a cycle started while another was running
    listed,           \* history: the ids the cycle's listing call returned
    ledgerAtFilter,   \* history: the ledger when the listing returned
    ledgerAtDone,     \* history: the ledger when monitorEmails returned
    foreign,          \* history: ids other cycles inserted since this one filtered
    clsOut,           \* history: what the classification call returned
    lblFailed,        \* history: a label call failed for the current message
    applied           \* history: number of label applications, per message id

cycleVars   == <<pc, newEmails, idx, results, analysis, isLead, draftBody, email,
                 report>>
mailboxVars == <<drafts, labels, msgLabels>>
logVars     == <<logs, logged, lastLogs>>
histVars    == <<started, overlapped, listed, ledgerAtFilter, ledgerAtDone,
                 foreign, clsOut, lblFailed, applied>>
vars        == <<processedEmails, logVars, cycleVars, mailboxVars, histVars,
                 handled>>

(***************************************************************************)
(* Bounds                                                                  *)
(***************************************************************************)
\* Total number of cycles (timer firings plus HTTP triggers) in one run.
MaxCycles == 2

\* The message ids the mailbox can list.
Ids == {"a", "b"}

\* Number of log() calls in one run of LogSpec.
MaxLogged == 103

\* The invocations that can be in flight together: one started by the
\* setInterval callback, one by POST /test or POST /monitor.
Cycles == {"timer", "http"}

(***************************************************************************)
(* JavaScript values                                                       *)
(***************************************************************************)
JSUndef   == [t |-> "undefined", b |-> FALSE, n |-> 0, s |-> ""]
JSNull    == [t |-> "null",      b |-> FALSE, n |-> 0, s |-> ""]
JSBool(x) == [t |-> "boolean",   b |-> x,     n |-> 0, s |-> ""]
JSNum(k)  == [t |-> "number",    b |-> FALSE, n |-> k, s |-> ""]
JSStr(x)  == [t |-> "string",    b |-> FALSE, n |-> 0, s |-> x]

\* An object with the properties processEmail reads; an absent property is
\* JSUndef, as a property read of it gives.
JSObj(l, c, r) == [t |-> "object", isLead |-> l, confidence |-> c, reason |-> r]

\* ToBoolean
Truthy(v) ==
    CASE v.t = "boolean" -> v.b
      [] v.t = "number"  -> v.n # 0
      [] v.t = "string"  -> v.s # ""
      [] v.t = "object"  -> TRUE
      [] OTHER           -> FALSE

\* A property read v.name throws a TypeError on null and undefined.
CanRead(v) == v.t \notin {"null", "undefined"}

\* v.isLead and v.confidence for a v that can be read: a primitive has neither.
GetIsLead(v)     == IF v.t = "object" THEN v.isLead ELSE JSUndef
GetConfidence(v) == IF v.t = "object" THEN v.confidence ELSE JSUndef

\* v > k for a number literal k (hundredths): ToNumber(v) > k, false on NaN.
GreaterThan(v, k) ==
    CASE v.t = "number"  -> v.n > k
      [] v.t = "boolean" -> (IF v.b THEN 100 ELSE 0) > k
      [] v.t = "null"    -> 0 > k
      [] OTHER           -> FALSE

(***************************************************************************)
(* What the gateways can answer                                            *)
(***************************************************************************)
\* gmail.users.messages.list is asked for at most this many ids.
MaxResults == 10

Min(x, y) == IF x < y THEN x ELSE y

Range(q) == {q[i] : i \in 1..Len(q)}

\* Sequences of n distinct ids: message ids are unique in a listing.
RECURSIVE DistinctSeqs(_)
DistinctSeqs(n) ==
    IF n = 0 THEN {<<>>}
    ELSE UNION {{Append(q, i) : i \in Ids \ Range(q)} : q \in DistinctSeqs(n - 1)}

\* gmail.users.messages.list: the call throws, or the response has no
\* messages property (nothing unread), or it lists up to MaxResults ids.
ListOutcomes ==
    {[threw |-> TRUE, has |-> FALSE, messages |-> <<>>],
     [threw |-> FALSE, has |-> FALSE, messages |-> <<>>]} \cup
    {[threw |-> FALSE, has |-> TRUE, messages |-> q] :
        q \in UNION {DistinctSeqs(n) : n \in 0..Min(Cardinality(Ids), MaxResults)}}

\* The payload of a fetched message, as far as processEmail looks at it:
\*   headers  "missing": no headers list; "none": a list without Subject,
\*            From and To; "all": a list with the three.
\*   body     "missing": no body object; "empty": a body object without
\*            data; "inline": a body object with data.
\*   parts    "missing": no parts list; "html": no text/plain part;
\*            "plain": a text/plain part with data; "plainEmpty": one whose
\*            body has no data; "plainNoBody": one without a body object.
Payloads ==
    [headers : {"missing", "none", "all"},
     body    : {"missing", "empty", "inline"},
     parts   : {"missing", "html", "plain", "plainEmpty", "plainNoBody"}]

WellFormed == [headers |-> "all", body |-> "inline", parts |-> "missing"]

\* gmail.users.messages.get: the call throws or returns a message.
GetOutcomes ==
    {[threw |-> TRUE, payload |-> WellFormed]} \cup
    {[threw |-> FALSE, payload |-> m] : m \in Payloads}

\* A gateway call that returns nothing the code reads: it succeeds or throws.
CallOutcomes == {"ok", "throw"}

\* Completion texts the classification call can return, with the value
\* JSON.parse gives for each; a text not listed here is not JSON.
JSONTable ==
    {<<"null", JSNull>>,
     <<"42", JSNum(4200)>>,
     <<"\"lead\"", JSStr("lead")>>,
     <<"{}", JSObj(JSUndef, JSUndef, JSUndef)>>,
     <<"{\"isLead\":true,\"confidence\":0.9,\"reason\":\"quote\"}",
       JSObj(JSBool(TRUE), JSNum(90), JSStr("quote"))>>,
     <<"{\"isLead\":true,\"confidence\":0.6,\"reason\":\"quote\"}",
       JSObj(JSBool(TRUE), JSNum(60), JSStr("quote"))>>,
     <<"{\"isLead\":true,\"confidence\":1.5,\"reason\":\"quote\"}",
       JSObj(JSBool(TRUE), JSNum(150), JSStr("quote"))>>,
     <<"{\"isLead\":false,\"confidence\":0.9,\"reason\":\"spam\"}",
       JSObj(JSBool(FALSE), JSNum(90), JSStr("spam"))>>,
     <<"{\"isLead\":false,\"confidence\":-0.2,\"reason\":\"spam\"}",
       JSObj(JSBool(FALSE), JSNum(-20), JSStr("spam"))>>}

\* JSON.parse(text): the parsed value, or a SyntaxError.
JSONParse(text) ==
    IF \E e \in JSONTable : e[1] = text
    THEN [threw |-> FALSE, v |-> (CHOOSE e \in JSONTable : e[1] = text)[2]]
    ELSE [threw |-> TRUE, v |-> JSUndef]

\* openai.chat.completions.create for the classification prompt: the call
\* throws, or the completion's content is one of these texts.
ClsTexts == {e[1] : e \in JSONTable} \cup {"Sure! This looks like a lead."}

ClsOutcomes ==
    {[threw |-> TRUE, content |-> ""]} \cup
    {[threw |-> FALSE, content |-> x] : x \in ClsTexts}

\* openai.chat.completions.create for the drafting prompt: the call throws,
\* or the completion's content is a text, the empty text, or null.
DraftOutcomes ==
    {[threw |-> TRUE, content |-> JSUndef],
     [threw |-> FALSE, content |-> JSStr("Thanks for reaching out.")],
     [threw |-> FALSE, content |-> JSStr("")],
     [threw |-> FALSE, content |-> JSNull]}

(***************************************************************************)
(* The pure parts of the code                                              *)
(***************************************************************************)
\* Mutant of analyzeEmailContent: the catch block logs and returns nothing.
analyzeNoReturn(out) ==
    IF out.threw THEN JSUndef
    ELSE LET parsed == JSONParse(out.content)
         IN  IF parsed.threw THEN JSUndef ELSE parsed.v

\* The verdict analyzeEmailContent returns from its catch block.  (The
\* keywords property, an empty array, is read by nothing and left out.)
Fallback == JSObj(JSBool(FALSE), JSNum(0), JSStr("Analysis failed"))

\* analyzeEmailContent: the parsed completion, or the fallback when the call
\* or JSON.parse throws.
analyzeEmailContent(out) ==
    IF out.threw THEN Fallback
    ELSE LET parsed == JSONParse(out.content)
         IN  IF parsed.threw THEN Fallback ELSE parsed.v

\* Mutant of EffectiveLead: >= in place of >.
EffectiveLeadGE(a) ==
    IF Truthy(GetIsLead(a))
    THEN JSBool(GreaterThan(GetConfidence(a), 59))
    ELSE GetIsLead(a)

\* The confidence threshold 0.6, in hundredths.
Threshold == 60

\* processEmail: analysis.isLead && analysis.confidence > 0.6, for an
\* analysis whose properties can be read.  a && b is a when a is falsy.
EffectiveLead(a) ==
    IF Truthy(GetIsLead(a))
    THEN JSBool(GreaterThan(GetConfidence(a), Threshold))
    ELSE GetIsLead(a)

\* processEmail: isLead ? 'lead' : 'other'
labelName(l) == IF Truthy(l) THEN "lead" ELSE "other"

LeadFallbackText  == "Thank you for your inquiry about our services. I'll get back to you shortly with more information."
OtherFallbackText == "Thank you for your email. I'll review it and get back to you if needed."

\* generateDraftResponse: the completion's content as it is, or the canned
\* text of the branch when the call throws.
generateDraftResponse(l, out) ==
    IF out.threw
    THEN JSStr(IF Truthy(l) THEN LeadFallbackText ELSE OtherFallbackText)
    ELSE out.content

\* Mutant of Unprocessed: no filter against the ledger.
UnprocessedAll(messages) == messages

\* Mutants of LedgerAfter: the id is never added; the id is added only
\* when its processing succeeded.
LedgerForgets(result, id) == processedEmails
LedgerOnSuccess(result, id) ==
    IF result.success THEN processedEmails \cup {id} ELSE processedEmails

\* The two routing labels.
LabelNames == {labelName(JSBool(TRUE)), labelName(JSBool(FALSE))}

\* Mutant of log: pop() instead of shift(), the newest entry is dropped.
logPop(ring, entry) ==
    IF Len(Append(ring, entry)) > 100 THEN ring ELSE Append(ring, entry)

\* Capacity of the log ring.
LogCap == 100

\* log(message): logs.push(logEntry); if (logs.length > 100) logs.shift()
log(ring, entry) ==
    IF Len(Append(ring, entry)) > LogCap
    THEN Tail(Append(ring, entry))
    ELSE Append(ring, entry)

\* Mutant of SliceLast: slice(0, k), the first k elements.
SliceFirst(seq, k) == SubSeq(seq, 1, Min(k, Len(seq)))

\* Array.prototype.slice(-k): the last k elements, all of them if fewer.
SliceLast(seq, k) ==
    SubSeq(seq, IF Len(seq) > k THEN Len(seq) - k + 1 ELSE 1, Len(seq))

\* Number of entries GET /logs returns.
LogsTail == 50

\* processEmail, lines 198-212: the headers and the body of the fetched
\* message.  headers.find on a missing list, payload.body.data on a missing
\* body and textPart?.body.data on a part without body throw a TypeError;
\* a header that is not there and a body without text give ''.  (The
\* base64 decoding of the data is not modelled: the text stands for it.)
Decode(m) ==
    [threw   |-> \/ m.headers = "missing"
                 \/ m.body = "missing"
                 \/ (m.body = "empty" /\ m.parts = "plainNoBody"),
     subject |-> IF m.headers = "all" THEN "Pricing?" ELSE "",
     from    |-> IF m.headers = "all" THEN "ann@example.com" ELSE "",
     to      |-> IF m.headers = "all" THEN "me@example.com" ELSE "",
     body    |-> CASE m.body = "inline" -> "inline text"
                   [] m.body = "empty" /\ m.parts = "plain" -> "part text"
                   [] OTHER -> ""]

\* monitorEmails: response.data.messages.filter(msg => !processedEmails.has(msg.id))
Unprocessed(messages) ==
    SelectSeq(messages, LAMBDA m : m \notin processedEmails)

\* monitorEmails: processedEmails.add(email.id), after result was pushed.
LedgerAfter(result, id) == processedEmails \cup {id}

(***************************************************************************)
(* State                                                                   *)
(***************************************************************************)
\* The awaits of processEmail and the pacing delay: the invocation is
\* working on candidate idx of newEmails.
ProcPcs == {"get", "analyze", "draft", "create", "labels", "labelcreate",
            "modify", "delay"}

\* monitorEmails is running (it has neither returned nor thrown).
Active(c) == pc[c] \notin {"idle", "done", "failed"}

\* The candidate the invocation is working on.
cur(c) == newEmails[c][idx[c]]

NoReport == [processed |-> -1, results |-> <<>>]
NoCls    == [called |-> FALSE, threw |-> FALSE, content |-> ""]
NoOutcome == [kind |-> "none", status |-> 0, success |-> FALSE]
NoLogs   == [logs |-> <<>>, total |-> -1, ring |-> <<>>, loggedThen |-> -1]
NoEmail  == [subject |-> "", from |-> "", to |-> "", body |-> ""]

\* processEmail's return value on success (from and subject left out) and
\* from its catch block.  forId is history: the candidate the entry is for.
SuccessResult(c) ==
    [success |-> TRUE, messageId |-> cur(c), isLead |-> isLead[c],
     confidence |-> GetConfidence(analysis[c]), label |-> labelName(isLead[c]),
     error |-> "", forId |-> cur(c)]

FailureResult(c, e) ==
    [success |-> FALSE, messageId |-> "", isLead |-> JSUndef,
     confidence |-> JSUndef, label |-> "", error |-> e, forId |-> cur(c)]

Init ==
    /\ processedEmails = {}
    /\ logs = <<>>
    /\ pc = [c \in Cycles |-> "idle"]
    /\ newEmails = [c \in Cycles |-> <<>>]
    /\ idx = [c \in Cycles |-> 0]
    /\ results = [c \in Cycles |-> <<>>]
    /\ analysis = [c \in Cycles |-> JSUndef]
    /\ isLead = [c \in Cycles |-> JSUndef]
    /\ draftBody = [c \in Cycles |-> JSUndef]
    /\ email = [c \in Cycles |-> NoEmail]
    /\ report = [c \in Cycles |-> NoReport]
    /\ drafts = [i \in Ids |-> 0]
    /\ labels = {}
    /\ msgLabels = [i \in Ids |-> {}]
    /\ started = 0
    /\ overlapped = FALSE
    /\ listed = [c \in Cycles |-> {}]
    /\ ledgerAtFilter = [c \in Cycles |-> {}]
    /\ ledgerAtDone = [c \in Cycles |-> {}]
    /\ foreign = [c \in Cycles |-> {}]
    /\ clsOut = [c \in Cycles |-> NoCls]
    /\ lblFailed = [c \in Cycles |-> FALSE]
    /\ applied = [i \in Ids |-> 0]
    /\ handled = [c \in Cycles |-> NoOutcome]
    /\ logged = 0
    /\ lastLogs = NoLogs

(***************************************************************************)
(* monitorEmails                                                           *)
(***************************************************************************)
\* A timer firing or an HTTP trigger calls monitorEmails, which runs up to
\* its first await, the listing call.
Start(c) ==
    /\ pc[c] = "idle"
    /\ started < MaxCycles
    /\ pc' = [pc EXCEPT ![c] = "list"]
    /\ started' = started + 1
    /\ overlapped' = (overlapped \/ \E d \in Cycles \ {c} : Active(d))
    /\ handled' = [handled EXCEPT ![c] = NoOutcome]
    /\ UNCHANGED <<processedEmails, logVars, mailboxVars, newEmails, idx,
                   results, analysis, isLead, draftBody, email, report,
                   listed, ledgerAtFilter, ledgerAtDone, foreign, clsOut,
                   lblFailed, applied>>

\* Mutant of Return: monitorEmails ends without a return value.
ReturnVoid(c, rep) ==
    /\ report' = report
    /\ pc' = [pc EXCEPT ![c] = "done"]
    /\ ledgerAtDone' = [ledgerAtDone EXCEPT ![c] = processedEmails]

\* monitorEmails returns rep.
Return(c, rep) ==
    /\ report' = [report EXCEPT ![c] = rep]
    /\ pc' = [pc EXCEPT ![c] = "done"]
    /\ ledgerAtDone' = [ledgerAtDone EXCEPT ![c] = processedEmails]

\* The listing call returns.  A throw leaves monitorEmails through its catch
\* block, which rethrows.  Without messages, or with none left after the
\* filter, monitorEmails returns the zero report.  Otherwise the loop starts
\* and processEmail issues the fetch of the first candidate.
ListReturn(c, out) ==
    /\ pc[c] = "list"
    /\ IF out.threw
       THEN /\ pc' = [pc EXCEPT ![c] = "failed"]
            /\ UNCHANGED <<newEmails, idx, results, report, listed,
                           ledgerAtFilter, ledgerAtDone>>
       ELSE /\ listed' = [listed EXCEPT ![c] = Range(out.messages)]
            /\ ledgerAtFilter' = [ledgerAtFilter EXCEPT ![c] = processedEmails]
            /\ IF ~out.has \/ Unprocessed(out.messages) = <<>>
               THEN /\ Return(c, [processed |-> 0, results |-> <<>>])
                    /\ UNCHANGED <<newEmails, idx, results>>
               ELSE /\ newEmails' = [newEmails EXCEPT ![c] = Unprocessed(out.messages)]
                    /\ idx' = [idx EXCEPT ![c] = 1]
                    /\ results' = [results EXCEPT ![c] = <<>>]
                    /\ pc' = [pc EXCEPT ![c] = "get"]
                    /\ UNCHANGED <<report, ledgerAtDone>>
    /\ UNCHANGED <<processedEmails, logVars, mailboxVars, analysis, isLead,
                   draftBody, email, started, overlapped, foreign, clsOut,
                   lblFailed, applied, handled>>

\* processEmail returned res for the current candidate: monitorEmails pushes
\* it, adds the id to the ledger and awaits the pacing delay.  lf: a label
\* call failed on the way.
EndCandidate(c, res, lf) ==
    /\ results' = [results EXCEPT ![c] = Append(@, res)]
    /\ processedEmails' = LedgerAfter(res, cur(c))
    /\ foreign' = [d \in Cycles |->
                     IF d # c /\ pc[d] \in ProcPcs
                     THEN foreign[d] \cup (LedgerAfter(res, cur(c)) \ processedEmails)
                     ELSE foreign[d]]
    /\ pc' = [pc EXCEPT ![c] = "delay"]
    /\ analysis' = [analysis EXCEPT ![c] = JSUndef]
    /\ isLead' = [isLead EXCEPT ![c] = JSUndef]
    /\ draftBody' = [draftBody EXCEPT ![c] = JSUndef]
    /\ email' = [email EXCEPT ![c] = NoEmail]
    /\ lblFailed' = [lblFailed EXCEPT ![c] = lf]
    /\ UNCHANGED <<logVars, labels, newEmails, idx, report, started,
                   overlapped, listed, ledgerAtFilter, ledgerAtDone, handled>>

\* Mutant of OnCandidateError: processEmail has no catch block, the error
\* reaches the catch block of monitorEmails and ends the cycle.
AbortCycle(c, e) ==
    /\ pc' = [pc EXCEPT ![c] = "failed"]
    /\ analysis' = [analysis EXCEPT ![c] = JSUndef]
    /\ isLead' = [isLead EXCEPT ![c] = JSUndef]
    /\ draftBody' = [draftBody EXCEPT ![c] = JSUndef]
    /\ email' = [email EXCEPT ![c] = NoEmail]
    /\ UNCHANGED <<results, processedEmails, foreign, lblFailed, logVars,
                   labels, newEmails, idx, report, started, overlapped,
                   listed, ledgerAtFilter, ledgerAtDone, handled>>

\* Mutant of OnCandidateError: the error is logged and swallowed where it
\* occurs, and processEmail carries on with the label step.
CarryOn(c, e) ==
    /\ pc' = [pc EXCEPT ![c] = "labels"]
    /\ UNCHANGED <<results, processedEmails, foreign, lblFailed, logVars,
                   labels, newEmails, idx, report, started, overlapped,
                   listed, ledgerAtFilter, ledgerAtDone, handled, analysis,
                   isLead, draftBody, email>>

\* Mutant of OnLabelError: addLabelToEmail rethrows, and the message ends
\* in a failure result although its draft exists.
LabelErrorFails(c) == EndCandidate(c, FailureResult(c, "label"), TRUE)

\* An error thrown inside processEmail's try block: its catch block returns
\* the failure result.
OnCandidateError(c, e) == EndCandidate(c, FailureResult(c, e), FALSE)

\* An error thrown inside addLabelToEmail: its catch blocks swallow it, and
\* processEmail goes on to return the success result.
OnLabelError(c) == EndCandidate(c, SuccessResult(c), TRUE)

(***************************************************************************)
(* processEmail                                                            *)
(***************************************************************************)
\* Variables a step inside processEmail leaves alone unless it says otherwise.
StepKeeps ==
    UNCHANGED <<processedEmails, logVars, newEmails, idx, results, report,
                started, overlapped, listed, ledgerAtFilter, ledgerAtDone,
                foreign, lblFailed,
                   handled>>

\* gmail.users.messages.get returns: the message is decoded and
\* analyzeEmailContent issues the classification call.  A TypeError of the
\* decoding is caught like every other error of processEmail.
GetReturn(c, out) ==
    /\ pc[c] = "get"
    /\ IF out.threw
       THEN OnCandidateError(c, "fetch")
       ELSE IF Decode(out.payload).threw
       THEN OnCandidateError(c, "decode")
       ELSE /\ email' = [email EXCEPT ![c] =
                           [subject |-> Decode(out.payload).subject,
                            from    |-> Decode(out.payload).from,
                            to      |-> Decode(out.payload).to,
                            body    |-> Decode(out.payload).body]]
            /\ pc' = [pc EXCEPT ![c] = "analyze"]
            /\ StepKeeps
            /\ UNCHANGED <<analysis, isLead, draftBody>>
    /\ UNCHANGED <<mailboxVars, clsOut, applied>>

\* The classification call returns: analyzeEmailContent returns the verdict,
\* processEmail computes isLead (a TypeError when the verdict has no
\* properties to read) and generateDraftResponse issues the drafting call.
AnalyzeReturn(c, out) ==
    /\ pc[c] = "analyze"
    /\ clsOut' = [clsOut EXCEPT ![c] =
                    [called |-> TRUE, threw |-> out.threw, content |-> out.content]]
    /\ IF ~CanRead(analyzeEmailContent(out))
       THEN OnCandidateError(c, "TypeError")
       ELSE /\ analysis' = [analysis EXCEPT ![c] = analyzeEmailContent(out)]
            /\ isLead' = [isLead EXCEPT ![c] = EffectiveLead(analyzeEmailContent(out))]
            /\ pc' = [pc EXCEPT ![c] = "draft"]
            /\ StepKeeps
            /\ UNCHANGED <<draftBody, email>>
    /\ UNCHANGED <<mailboxVars, applied>>

\* The drafting call returns: generateDraftResponse returns the text and
\* createDraftResponse issues gmail.users.drafts.create with it.
DraftReturn(c, out) ==
    /\ pc[c] = "draft"
    /\ draftBody' = [draftBody EXCEPT ![c] = generateDraftResponse(isLead[c], out)]
    /\ pc' = [pc EXCEPT ![c] = "create"]
    /\ StepKeeps
    /\ UNCHANGED <<analysis, isLead, email, mailboxVars, clsOut, applied>>

\* drafts.create returns.  A throw is logged and rethrown by
\* createDraftResponse.  Otherwise the mailbox holds one more draft for the
\* message and addLabelToEmail issues gmail.users.labels.list.
CreateReturn(c, out) ==
    /\ pc[c] = "create"
    /\ IF out = "throw"
       THEN /\ OnCandidateError(c, "create")
            /\ UNCHANGED drafts
       ELSE /\ drafts' = [drafts EXCEPT ![cur(c)] = @ + 1]
            /\ pc' = [pc EXCEPT ![c] = "labels"]
            /\ StepKeeps
            /\ UNCHANGED <<analysis, isLead, draftBody, email>>
    /\ UNCHANGED <<labels, msgLabels, clsOut, applied>>

(***************************************************************************)
(* addLabelToEmail                                                         *)
(***************************************************************************)
\* Mutant of Find: the label is looked up by id, which no name equals.
FindById(list, name) == FALSE

\* addLabelToEmail: labels.data.labels.find(label => label.name === labelName)
Find(list, name) == name \in list

\* labels.list returns: an existing label of that name is reused and
\* messages.modify is issued, otherwise labels.create is issued.
LabelsListReturn(c, out) ==
    /\ pc[c] = "labels"
    /\ IF out = "throw"
       THEN OnLabelError(c)
       ELSE /\ pc' = [pc EXCEPT ![c] =
                        IF Find(labels, labelName(isLead[c]))
                        THEN "modify" ELSE "labelcreate"]
            /\ StepKeeps
            /\ UNCHANGED <<analysis, isLead, draftBody, email>>
    /\ UNCHANGED <<mailboxVars, clsOut, applied>>

\* labels.create returns: the new label exists and messages.modify is
\* issued.  The mailbox refuses to create a label whose name exists.
LabelCreateReturn(c, out) ==
    /\ pc[c] = "labelcreate"
    /\ out = "ok" => labelName(isLead[c]) \notin labels
    /\ IF out = "throw"
       THEN /\ OnLabelError(c)
            /\ UNCHANGED labels
       ELSE /\ labels' = labels \cup {labelName(isLead[c])}
            /\ pc' = [pc EXCEPT ![c] = "modify"]
            /\ StepKeeps
            /\ UNCHANGED <<analysis, isLead, draftBody, email>>
    /\ UNCHANGED <<drafts, msgLabels, clsOut, applied>>

\* messages.modify returns: the message carries the label, or the error is
\* logged; either way processEmail returns the success result.
ModifyReturn(c, out) ==
    /\ pc[c] = "modify"
    /\ IF out = "throw"
       THEN /\ OnLabelError(c)
            /\ UNCHANGED <<msgLabels, applied>>
       ELSE /\ msgLabels' = [msgLabels EXCEPT ![cur(c)] = @ \cup {labelName(isLead[c])}]
            /\ applied' = [applied EXCEPT ![cur(c)] = @ + 1]
            /\ EndCandidate(c, SuccessResult(c), FALSE)
    /\ UNCHANGED <<drafts, clsOut>>

(***************************************************************************)
(* The loop of monitorEmails and its callers                               *)
(***************************************************************************)
\* The pacing delay ends: the loop goes on to the next candidate, whose
\* fetch processEmail issues, or monitorEmails returns the report.
DelayReturn(c) ==
    /\ pc[c] = "delay"
    /\ IF idx[c] < Len(newEmails[c])
       THEN /\ idx' = [idx EXCEPT ![c] = @ + 1]
            /\ pc' = [pc EXCEPT ![c] = "get"]
            /\ UNCHANGED <<report, ledgerAtDone>>
       ELSE /\ Return(c, [processed |-> Len(newEmails[c]), results |-> results[c]])
            /\ UNCHANGED idx
    /\ clsOut' = [clsOut EXCEPT ![c] = NoCls]
    /\ lblFailed' = [lblFailed EXCEPT ![c] = FALSE]
    /\ UNCHANGED <<processedEmails, logVars, mailboxVars, newEmails, results,
                   analysis, isLead, draftBody, email, started, overlapped,
                   listed, ledgerAtFilter, foreign, applied, handled>>

\* Mutant of Caller: the setInterval callback has no try/catch and the
\* handlers answer 200 whatever happened.
CallerUnguarded(c, failed) ==
    IF c = "timer"
    THEN [kind |-> IF failed THEN "unhandled" ELSE "returned",
          status |-> 0, success |-> ~failed]
    ELSE [kind |-> "response", status |-> 200, success |-> TRUE]

\* What the caller of monitorEmails does with its outcome: the setInterval
\* callback drops a report and catches and logs an error; the handlers of
\* POST /test and POST /monitor answer 200 with success=true and the report,
\* or 500 with success=false and the error.
Caller(c, failed) ==
    IF c = "timer"
    THEN [kind |-> IF failed THEN "logged" ELSE "returned",
          status |-> 0, success |-> ~failed]
    ELSE [kind |-> "response", status |-> IF failed THEN 500 ELSE 200,
          success |-> ~failed]

\* The caller of monitorEmails (the setInterval callback or the HTTP
\* handler) takes the report or the error, and the invocation is over.
Finish(c) ==
    /\ pc[c] \in {"done", "failed"}
    /\ pc' = [pc EXCEPT ![c] = "idle"]
    /\ newEmails' = [newEmails EXCEPT ![c] = <<>>]
    /\ idx' = [idx EXCEPT ![c] = 0]
    /\ results' = [results EXCEPT ![c] = <<>>]
    /\ report' = [report EXCEPT ![c] = NoReport]
    /\ listed' = [listed EXCEPT ![c] = {}]
    /\ ledgerAtFilter' = [ledgerAtFilter EXCEPT ![c] = {}]
    /\ ledgerAtDone' = [ledgerAtDone EXCEPT ![c] = {}]
    /\ foreign' = [foreign EXCEPT ![c] = {}]
    /\ handled' = [handled EXCEPT ![c] = Caller(c, pc[c] = "failed")]
    /\ UNCHANGED <<processedEmails, logVars, mailboxVars, analysis, isLead,
                   draftBody, email, started, overlapped, clsOut, lblFailed,
                   applied>>

(***************************************************************************)
(* log() and GET /logs                                                     *)
(***************************************************************************)
\* Some callback calls log(message).  The entry, "[timestamp] message", is
\* written as the number of the call.
LogCall ==
    /\ logged < MaxLogged
    /\ logs' = log(logs, logged + 1)
    /\ logged' = logged + 1
    /\ UNCHANGED <<processedEmails, lastLogs, cycleVars, mailboxVars, histVars,
                   handled>>

\* GET /logs: res.json({ logs: logs.slice(-50), total: logs.length }).
\* ring and loggedThen are history: the ring and the number of log() calls
\* at the time of the request.
GetLogs ==
    /\ lastLogs' = [logs |-> SliceLast(logs, LogsTail), total |-> Len(logs),
                    ring |-> logs, loggedThen |-> logged]
    /\ UNCHANGED <<processedEmails, logs, logged, cycleVars, mailboxVars,
                   histVars, handled>>

\* One step of invocation c, the inference gateway answering from CO
\* (classification) and DO (drafting).
Step(c, GO, CO, DO) ==
    \/ Start(c)
    \/ \E out \in ListOutcomes : ListReturn(c, out)
    \/ \E out \in GO : GetReturn(c, out)
    \/ \E out \in CO : AnalyzeReturn(c, out)
    \/ \E out \in DO : DraftReturn(c, out)
    \/ \E out \in CallOutcomes : CreateReturn(c, out)
    \/ \E out \in CallOutcomes : LabelsListReturn(c, out)
    \/ \E out \in CallOutcomes : LabelCreateReturn(c, out)
    \/ \E out \in CallOutcomes : ModifyReturn(c, out)
    \/ DelayReturn(c)
    \/ Finish(c)

\* Under overlapping cycles the gateways answer from a small set that still
\* takes both branches of isLead: a fetch throws or returns a well-formed
\* message, the classification call throws (fallback verdict, label
\* "other") or returns a lead verdict (label "lead"), and the drafting call
\* returns a text.  SpecPipeline has every answer.
GetCompact == {o \in GetOutcomes : o.payload = WellFormed}

ClsCompact ==
    {o \in ClsOutcomes :
        \/ o.threw
        \/ o.content = "{\"isLead\":true,\"confidence\":0.9,\"reason\":\"quote\"}"}

DraftCompact ==
    {o \in DraftOutcomes : ~o.threw /\ Truthy(o.content)}

\* The service: the timer and the HTTP triggers start cycles that may overlap.
Next == \E c \in Cycles : Step(c, GetCompact, ClsCompact, DraftCompact)

Spec == Init /\ [][Next]_vars

\* One invocation at a time, with every answer of the inference gateway.
NextPipeline == Step("http", GetOutcomes, ClsOutcomes, DraftOutcomes)

SpecPipeline == Init /\ [][NextPipeline]_vars

\* Every gateway call and the pacing timer eventually return, and the caller
\* of monitorEmails runs when it ends.  Triggers are not forced.
Returns(c) ==
    \/ \E out \in ListOutcomes : ListReturn(c, out)
    \/ \E out \in GetOutcomes : GetReturn(c, out)
    \/ \E out \in ClsOutcomes : AnalyzeReturn(c, out)
    \/ \E out \in DraftOutcomes : DraftReturn(c, out)
    \/ \E out \in CallOutcomes : CreateReturn(c, out)
    \/ \E out \in CallOutcomes : LabelsListReturn(c, out)
    \/ \E out \in CallOutcomes : LabelCreateReturn(c, out)
    \/ \E out \in CallOutcomes : ModifyReturn(c, out)
    \/ DelayReturn(c)
    \/ Finish(c)

SpecPipelineFair == SpecPipeline /\ WF_vars(Returns("http"))

\* log() calls and GET /logs requests in any order.
NextLog == LogCall \/ GetLogs

LogSpec == Init /\ [][NextLog]_vars

(***************************************************************************)
(* Properties                                                              *)
(***************************************************************************)
Last(q) == q[Len(q)]

\* The awaits of processEmail itself: a gateway call for the current
\* candidate is in flight.
CallPcs == ProcPcs \ {"delay"}

\* C1: an id that is in the ledger when a cycle filters its listing is not
\* among the cycle's candidates: no gateway call of the cycle (fetch,
\* classification, drafting, draft creation, label calls) is ever in flight
\* for it, and no result of the cycle is for it.
C1_NoReprocessing ==
    \A c \in Cycles :
        /\ Range(newEmails[c]) \cap ledgerAtFilter[c] = {}
        /\ pc[c] \in ProcPcs => cur(c) \notin ledgerAtFilter[c]
        /\ \A k \in 1..Len(results[c]) : results[c][k].forId \notin ledgerAtFilter[c]

\* C1 witness: a cycle is processing a candidate although its listing also
\* held an id that was in the ledger already.
C1_Witness ==
    \E c \in Cycles :
        /\ pc[c] \in CallPcs
        /\ listed[c] \cap ledgerAtFilter[c] # {}

\* C2 as stated: over all cycles of a run, overlapping or not, every id has
\* at most one draft created and at most one label application made.
C2_Original ==
    \A i \in Ids : drafts[i] <= 1 /\ applied[i] <= 1

\* C2 amended: as long as no cycle started while another one was running,
\* every id has at most one draft created and at most one label application
\* made, over all cycles of the run.
C2_OncePerIdWithoutOverlap ==
    ~overlapped => \A i \in Ids : drafts[i] <= 1 /\ applied[i] <= 1

\* C2 witness: without overlap, a later cycle has listed an id again that
\* was drafted and labelled before, and has completed.
C2_Witness ==
    /\ ~overlapped
    /\ \E c \in Cycles, i \in Ids :
        /\ pc[c] = "done"
        /\ i \in listed[c] \cap ledgerAtFilter[c]
        /\ drafts[i] = 1
        /\ applied[i] = 1

\* The report part of C3: the processed count is the number of candidates
\* and the length of results; the zero report when there are no candidates.
ReportMatches(c) ==
    IF newEmails[c] # <<>>
    THEN /\ report[c].processed = Len(newEmails[c])
         /\ report[c].processed = Len(report[c].results)
    ELSE report[c] = [processed |-> 0, results |-> <<>>]

\* C3 as stated: when a cycle completes, the ledger is exactly the ledger at
\* filter time together with the cycle's candidates (unchanged when there
\* are none), and the report matches.
C3_Original ==
    \A c \in Cycles :
        pc[c] = "done" =>
            /\ ledgerAtDone[c] = ledgerAtFilter[c] \cup Range(newEmails[c])
            /\ ReportMatches(c)

\* C3 amended: when a cycle completes, the ledger is the ledger at filter
\* time together with the cycle's candidates, succeeded or failed, and with
\* the ids other cycles inserted while this one was processing (none when
\* no cycle overlaps it); it is unchanged when the cycle had no candidates;
\* and the report matches.
C3_LedgerAfterCycle ==
    \A c \in Cycles :
        pc[c] = "done" =>
            /\ ledgerAtDone[c] =
                 ledgerAtFilter[c] \cup Range(newEmails[c]) \cup foreign[c]
            /\ newEmails[c] = <<>> => ledgerAtDone[c] = ledgerAtFilter[c]
            /\ ReportMatches(c)

\* C3 witness: a completed cycle whose listing held an id already in the
\* ledger and a candidate whose processing failed.
C3_Witness ==
    \E c \in Cycles :
        /\ pc[c] = "done"
        /\ listed[c] \cap ledgerAtFilter[c] # {}
        /\ \E k \in 1..Len(report[c].results) : ~report[c].results[k].success

\* The awaits of processEmail after isLead was computed.
LeadPcs == {"draft", "create", "labels", "labelcreate", "modify"}

\* C4: the flag isLead is true exactly when the verdict's isLead is true and
\* its confidence is a number above 0.6 (0.6 itself gives false), and the
\* label of a result is "lead" exactly when its flag is true, "other"
\* otherwise.
C4_EffectiveLead ==
    \A c \in Cycles :
        /\ pc[c] \in LeadPcs =>
             ((isLead[c] = JSBool(TRUE)) <=>
                 /\ GetIsLead(analysis[c]) = JSBool(TRUE)
                 /\ GetConfidence(analysis[c]).t = "number"
                 /\ GetConfidence(analysis[c]).n > 60)
        /\ \A k \in 1..Len(results[c]) :
             results[c][k].success =>
                 /\ results[c][k].label \in {"lead", "other"}
                 /\ results[c][k].label = "lead" <=> results[c][k].isLead = JSBool(TRUE)

\* C4 witness: a verdict with isLead true and confidence exactly 0.6 has
\* given the flag false.
C4_Witness ==
    \E c \in Cycles :
        /\ pc[c] \in LeadPcs
        /\ GetIsLead(analysis[c]) = JSBool(TRUE)
        /\ GetConfidence(analysis[c]) = JSNum(60)
        /\ isLead[c] = JSBool(FALSE)

\* C5: a numeric confidence that processEmail compares with the threshold,
\* and one that it reports in a result, lies within [0,1].
C5_ConfidenceInRange ==
    \A c \in Cycles :
        /\ (pc[c] \in LeadPcs /\ GetConfidence(analysis[c]).t = "number") =>
             GetConfidence(analysis[c]).n \in 0..100
        /\ \A k \in 1..Len(results[c]) :
             (results[c][k].success /\ results[c][k].confidence.t = "number") =>
                 results[c][k].confidence.n \in 0..100

\* C6: the text generateDraftResponse returned, which draft creation is
\* called with, is a non-empty string.
C6_DraftNonEmpty ==
    \A c \in Cycles :
        pc[c] = "create" => (draftBody[c].t = "string" /\ draftBody[c].s # "")

\* The label calls of the current message that have returned so far all
\* succeeded.
Labelled(c) == pc[c] = "delay" /\ Last(results[c]).success /\ ~lblFailed[c]

\* C7: when the classification call threw for the current message, the
\* verdict is the fallback, the flag is false, the drafting call is made on
\* the non-lead branch, draft creation is attempted, the label is "other",
\* and the message ends in the ledger.
C7_ClassifierThrowDegrades ==
    \A c \in Cycles :
        (clsOut[c].called /\ clsOut[c].threw) =>
            /\ pc[c] \in LeadPcs \cup {"delay"}
            /\ pc[c] \in LeadPcs =>
                 /\ analysis[c] = JSObj(JSBool(FALSE), JSNum(0), JSStr("Analysis failed"))
                 /\ isLead[c] = JSBool(FALSE)
            /\ pc[c] = "create" => draftBody[c] # JSStr(LeadFallbackText)
            /\ pc[c] = "delay" =>
                 /\ cur(c) \in processedEmails
                 /\ Last(results[c]).forId = cur(c)
                 /\ IF Last(results[c]).success
                    THEN /\ Last(results[c]).isLead = JSBool(FALSE)
                         /\ Last(results[c]).confidence = JSNum(0)
                         /\ Last(results[c]).label = "other"
                         /\ drafts[cur(c)] >= 1
                    ELSE Last(results[c]).error = "create"
                 /\ Labelled(c) => msgLabels[cur(c)] = {"other"}

\* C7 witness: the classification call threw, and the message has its draft
\* and carries the label "other".
C7_Witness ==
    \E c \in Cycles :
        /\ clsOut[c].called /\ clsOut[c].threw
        /\ Labelled(c)
        /\ drafts[cur(c)] = 1
        /\ msgLabels[cur(c)] = {"other"}

\* Completion texts that are not a verdict: not JSON, or JSON of another
\* shape.
NotVerdictTexts == {"Sure! This looks like a lead.", "null", "42", "\"lead\"", "{}"}

\* C8: when the classification call returned a text that is not a verdict,
\* the verdict is the fallback and the message goes on to drafting and
\* draft creation.
C8_UnexpectedSchemaFallsBack ==
    \A c \in Cycles :
        (clsOut[c].called /\ ~clsOut[c].threw /\ clsOut[c].content \in NotVerdictTexts) =>
            /\ pc[c] \in LeadPcs =>
                 analysis[c] = JSObj(JSBool(FALSE), JSNum(0), JSStr("Analysis failed"))
            /\ pc[c] = "delay" =>
                 (Last(results[c]).success \/ Last(results[c]).error = "create")

\* C9: once the loop has started the cycle is never ended by an error; a
\* fetch failure or a draft-creation failure gives a failure result for that
\* candidate; results holds one entry per candidate done so far, in the
\* order of the candidates, and the report one entry per candidate.
C9_ErrorsStayAtCandidate ==
    \A c \in Cycles :
        /\ pc[c] = "failed" => newEmails[c] = <<>>
        /\ pc[c] \in CallPcs => Len(results[c]) = idx[c] - 1
        /\ pc[c] = "delay" => Len(results[c]) = idx[c]
        /\ \A k \in 1..Len(results[c]) :
             /\ results[c][k].forId = newEmails[c][k]
             /\ results[c][k].success <=> results[c][k].error = ""
             /\ results[c][k].success => results[c][k].messageId = newEmails[c][k]
             /\ results[c][k].success => drafts[newEmails[c][k]] >= 1
        /\ (pc[c] = "done" /\ newEmails[c] # <<>>) =>
             /\ report[c].results = results[c]
             /\ Len(results[c]) = Len(newEmails[c])

\* C9 witness: a completed cycle whose first candidate failed and whose
\* second candidate succeeded.
C9_Witness ==
    \E c \in Cycles :
        /\ pc[c] = "done"
        /\ Len(report[c].results) = 2
        /\ ~report[c].results[1].success
        /\ report[c].results[2].success

\* C10: when a label call failed for a message whose draft was created, the
\* message has its success result, the draft is there, this processing has
\* put no label on the message (it carries none unless another cycle
\* processed the same message as well), the message is in the ledger and the
\* cycle is at the pacing delay, from where it goes on.
C10_LabelFailureSwallowed ==
    \A c \in Cycles :
        lblFailed[c] =>
            /\ pc[c] = "delay"
            /\ Last(results[c]).success
            /\ Last(results[c]).messageId = cur(c)
            /\ drafts[cur(c)] >= 1
            /\ applied[cur(c)] < drafts[cur(c)]
            /\ drafts[cur(c)] = 1 => msgLabels[cur(c)] = {}
            /\ cur(c) \in processedEmails

\* C10 witness: a label call failed for the first of two candidates, the
\* only one to process that message.
C10_Witness ==
    \E c \in Cycles :
        /\ lblFailed[c]
        /\ idx[c] < Len(newEmails[c])
        /\ drafts[cur(c)] = 1
        /\ msgLabels[cur(c)] = {}

\* C11: within one cycle (SpecPipeline: cycles never overlap) a
\* labels.create call is outstanding only for a name the mailbox does not
\* have: once the label of the first message was created, every later
\* message needing that name finds it in the listing and goes straight to
\* messages.modify with the existing label, so that the labels carried by
\* messages are labels of the mailbox.
C11_CreateOnceThenReuse ==
    /\ \A c \in Cycles :
        /\ pc[c] = "labelcreate" => labelName(isLead[c]) \notin labels
        /\ pc[c] = "modify" => labelName(isLead[c]) \in labels
    /\ \A i \in Ids : msgLabels[i] \subseteq labels

\* C11: the first cycle of a run labelled two messages "lead": the first
\* created the label, the second reused it.
C11_Witness ==
    /\ started = 1
    /\ pc["http"] = "done"
    /\ Len(results["http"]) = 2
    /\ \A k \in 1..2 : /\ results["http"][k].success
                       /\ results["http"][k].label = "lead"
    /\ \A i \in Ids : msgLabels[i] = {"lead"} /\ applied[i] = 1
    /\ labels = {"lead"}

\* C12 as stated: a started cycle never leaves monitorEmails other than by
\* returning a report, also when the listing call fails (the catch block's
\* rethrow, pc "failed", is never taken).
C12_Original == \A c \in Cycles : pc[c] # "failed"

\* C12: when every gateway call returns, every started cycle ends: it
\* returns a report whose count is the length of its results, whatever the
\* calls made for the candidates answered, or, when the listing call
\* fails, it throws the listing error to its caller and returns no report.
C12_CycleEnds ==
    /\ \A c \in Cycles : (pc[c] = "list") ~> (pc[c] \in {"done", "failed"})
    /\ [](\A c \in Cycles :
            /\ pc[c] = "done" => /\ report[c].processed = Len(report[c].results)
                                 /\ report[c].processed = Len(newEmails[c])
            /\ pc[c] = "failed" => /\ report[c] = NoReport
                                   /\ newEmails[c] = <<>>)

\* C12: a cycle returned its report after one candidate failed and the
\* other went through.
C12_Witness ==
    /\ pc["http"] = "done"
    /\ report["http"].processed = 2
    /\ ~report["http"].results[1].success
    /\ report["http"].results[2].success

\* C13: a cycle whose listing call failed has processed nothing and
\* inserted nothing into the ledger, neither when it fails nor when its
\* caller handles the error.  The setInterval callback catches and logs the
\* error, after which the timer slot is free for the next firing; the HTTP
\* handler answers 500 with success=false.  A 500 is only ever the answer to
\* a failed cycle.
C13_CycleFailureHandled ==
    /\ [][\A c \in Cycles :
            /\ (pc[c] = "list" /\ pc'[c] = "failed") =>
                    /\ processedEmails' = processedEmails
                    /\ results'[c] = <<>>
            /\ (pc[c] = "failed" /\ pc'[c] # "failed") =>
                    /\ processedEmails' = processedEmails
                    /\ pc'[c] = "idle"
                    /\ handled'[c] =
                         IF c = "timer"
                         THEN [kind |-> "logged", status |-> 0, success |-> FALSE]
                         ELSE [kind |-> "response", status |-> 500, success |-> FALSE]
            /\ (pc[c] = "done" /\ pc'[c] # "done") =>
                    /\ handled'[c].success
                    /\ handled'[c].status # 500]_vars
    /\ [](/\ pc["timer"] = "failed" => results["timer"] = <<>>
          /\ (/\ handled["timer"].kind = "logged"
              /\ pc["timer"] = "idle"
              /\ started < MaxCycles) => ENABLED Start("timer"))

\* C13: the scheduler's cycle failed at the listing call, the callback
\* caught and logged the error, the ledger is as it was, and the next timer
\* firing can start a cycle.
C13_Witness ==
    /\ handled["timer"].kind = "logged"
    /\ pc["timer"] = "idle"
    /\ processedEmails = {}
    /\ ENABLED Start("timer")

\* C14: the decoding step never fails: whatever the shape of the fetched
\* message, no candidate ends in a failure result because of the decoding.
C14_DecodeNeverFails ==
    \A c \in Cycles : \A k \in 1..Len(results[c]) :
        results[c][k].error # "decode"

\* C15: after n log() calls the ring holds min(n, 100) entries, and they
\* are the most recent ones in insertion order: entry i of the ring is the
\* call number n - size + i.
C15_RingHoldsMostRecent ==
    /\ Len(logs) <= 100
    /\ Len(logs) = Min(logged, 100)
    /\ \A i \in 1..Len(logs) : logs[i] = logged - Len(logs) + i

\* C15: the 101st call has dropped the first entry and kept the other 100
\* in order.
C15_Witness ==
    /\ logged = 101
    /\ Len(logs) = 100
    /\ logs[1] = 2
    /\ logs[100] = 101

\* C16: the total of every GET /logs response is the number of log() calls
\* made so far.
C16_TotalIsAllTime ==
    lastLogs # NoLogs => lastLogs.total = lastLogs.loggedThen

\* C17: a GET /logs response holds at most 50 entries: the last
\* min(50, size) entries of the ring as it was at the request, in their
\* order.
C17_LogsTailOfRing ==
    lastLogs # NoLogs =>
        /\ Len(lastLogs.logs) <= 50
        /\ Len(lastLogs.logs) = Min(50, Len(lastLogs.ring))
        /\ \A i \in 1..Len(lastLogs.logs) :
             lastLogs.logs[i] =
                 lastLogs.ring[Len(lastLogs.ring) - Len(lastLogs.logs) + i]

\* C17: a response of 50 entries taken from a full ring that had already
\* dropped entries.
C17_Witness ==
    /\ lastLogs # NoLogs
    /\ lastLogs.loggedThen > 100
    /\ Len(lastLogs.ring) = 100
    /\ Len(lastLogs.logs) = 50
    /\ lastLogs.logs[1] = lastLogs.ring[51]
    /\ lastLogs.logs[50] = lastLogs.loggedThen

\* The ids some cycle is between drafts.create and the insertion into the
\* ledger for.
InLabelling == {cur(c) : c \in {d \in Cycles : pc[d] \in {"labels", "labelcreate", "modify"}}}

\* C18: with overlapping cycles, the candidates of a cycle are exactly the
\* listed ids that were not in the ledger when it filtered: an id another
\* cycle had inserted before is skipped, an id another cycle is still
\* processing is processed again.  An id gets at most one draft per cycle
\* that is running at the same time, and a second draft only when cycles
\* overlapped.  The ledger is a set of listed ids: it holds the id of every
\* recorded result and of every drafted message whose cycle is past the
\* labelling, however many cycles inserted it.
C18_OverlapSkipsOrDuplicates ==
    /\ \A c \in Cycles :
        /\ pc[c] \in ProcPcs \cup {"done"} =>
               Range(newEmails[c]) = listed[c] \ ledgerAtFilter[c]
        /\ \A k \in 1..Len(results[c]) : results[c][k].forId \in processedEmails
    /\ \A i \in Ids :
        /\ drafts[i] <= Cardinality(Cycles)
        /\ drafts[i] >= 2 => overlapped
        /\ drafts[i] > 0 => i \in processedEmails \cup InLabelling
    /\ processedEmails \subseteq Ids

\* C18: two overlapping cycles both filtered before either inserted id "a",
\* both created a draft for it, and both have ended: the ledger holds "a".
C18_Witness ==
    /\ overlapped
    /\ \A c \in Cycles : /\ pc[c] = "done"
                         /\ "a" \in Range(newEmails[c])
                         /\ "a" \notin ledgerAtFilter[c]
    /\ drafts["a"] = 2
    /\ "a" \in processedEmails

\* Two addLabelToEmail invocations have both found the same label name
\* missing and both have a labels.create call for it outstanding.
CreateRace ==
    \E c, d \in Cycles :
        /\ c # d
        /\ pc[c] = "labelcreate"
        /\ pc[d] = "labelcreate"
        /\ labelName(isLead[c]) = labelName(isLead[d])

\* C19 as stated: in every execution, overlapping cycles included, no two
\* addLabelToEmail invocations both find the name missing and both issue a
\* labels.create call for it.
C19_Original == ~CreateRace

\* C19 amended: as long as no cycle started while another one was running,
\* there is no label-creation race: no two invocations have a labels.create
\* call for the same name outstanding, and no labels.create call is
\* outstanding for a name the mailbox has.
C19_NoCreateRaceWithoutOverlap ==
    ~overlapped =>
        /\ ~CreateRace
        /\ \A c \in Cycles :
             pc[c] = "labelcreate" => labelName(isLead[c]) \notin labels

\* C19 witness: without overlap, the second candidate of a cycle found the
\* label the first candidate carries and is applying it.
C19_Witness ==
    /\ ~overlapped
    /\ \E c \in Cycles :
        /\ pc[c] = "modify"
        /\ idx[c] = 2
        /\ labelName(isLead[c]) \in msgLabels[newEmails[c][1]]

\* The calls that can follow the call p within the processing of one
\* candidate, in the order of the code; "delay" stands for the recording of
\* the result and the insertion into the ledger, after which the loop waits.
NextPcs(p) ==
    CASE p = "get"         -> {"analyze", "delay"}
      [] p = "analyze"     -> {"draft", "delay"}
      [] p = "draft"       -> {"create"}
      [] p = "create"      -> {"labels", "delay"}
      [] p = "labels"      -> {"modify", "labelcreate", "delay"}
      [] p = "labelcreate" -> {"modify", "delay"}
      [] p = "modify"      -> {"delay"}
      [] p = "delay"       -> {"get", "done"}
      [] OTHER             -> {"idle", "list", "get", "done", "failed"}

\* C20: within one cycle the steps of a candidate follow each other in the
\* order fetch, classify, draft, create-draft, apply-label, and a step
\* starts when the previous call has returned.  The label step starts only
\* from a drafts.create call that succeeded.  When the candidate is over,
\* its result is pushed and its id inserted into the ledger in the same
\* step, and only then does the loop go on: a cycle that is working on
\* candidate k has recorded k-1 results and the ids of the k-1 candidates
\* before it are in the ledger.
C20_StepOrder ==
    /\ [][\A c \in Cycles :
            /\ pc'[c] # pc[c] => pc'[c] \in NextPcs(pc[c])
            /\ (pc'[c] = "labels" /\ pc[c] # "labels") =>
                    /\ pc[c] = "create"
                    /\ drafts'[cur(c)] = drafts[cur(c)] + 1
            /\ (pc'[c] = "delay" /\ pc[c] # "delay") =>
                    /\ Len(results'[c]) = Len(results[c]) + 1
                    /\ Last(results'[c]).forId = cur(c)
                    /\ cur(c) \in processedEmails'
            /\ (pc'[c] = "get" /\ pc[c] = "delay") =>
                    /\ idx'[c] = idx[c] + 1
                    /\ cur(c) \in processedEmails]_vars
    /\ [](\A c \in Cycles :
            /\ pc[c] \in {"labels", "labelcreate", "modify"} => drafts[cur(c)] >= 1
            /\ pc[c] \in ProcPcs \ {"delay"} =>
                    /\ Len(results[c]) = idx[c] - 1
                    /\ \A k \in 1..(idx[c] - 1) : newEmails[c][k] \in processedEmails
            /\ pc[c] = "delay" => Len(results[c]) = idx[c])

\* C20: the fetch of the second candidate is outstanding after the first
\* one was drafted, labelled, recorded and inserted into the ledger.
C20_Witness ==
    \E c \in Cycles :
        /\ pc[c] = "get"
        /\ idx[c] = 2
        /\ results[c][1].success
        /\ drafts[newEmails[c][1]] = 1
        /\ applied[newEmails[c][1]] = 1
        /\ newEmails[c][1] \in processedEmails
====
